---- MODULE Spec2Model ----
(***************************************************************************)
(* Handicap Cup Scorer: the scoring/state engine of two builds of the app. *)
(*   "v2"    src/app.js            (storage key handicap-cup-v2, with the  *)
(*                                  per-row exchange adjustment)           *)
(*   "1.0.5" src/unnamed/part_001  lines 170-627 (storage key              *)
(*                                  handicap-cup-1.0.5, set totals)        *)
(* Every action is one whole event handler (or the script's start-up);     *)
(* a state of the model is a point between two user events.                *)
(***************************************************************************)
EXTENDS Integers, Sequences, FiniteSets, TLC

VARIABLES
  version,   \* the build that is running: "v2" or "1.0.5"
  storage,   \* localStorage: storage key -> item
  state,     \* the script's `let state`
  loadedOk,  \* history: the state loadState() returned at the latest start-up
             \*          satisfied the data-model invariants
  lastOp,    \* history: the handler that ran last
  matchOrder, \* the script's MATCH_ORDER array
  shown,     \* the derived values the page displays
  left       \* the number of events the exploration still follows

vars == <<version, storage, state, loadedOk, lastOp, matchOrder, shown, left>>

(***************************************************************************)
(* Bounds of the exploration.                                              *)
(***************************************************************************)
MaxSteps == 2        \* events followed from an arbitrary stored item
MaxFreshSteps == 3   \* events followed from an empty storage

(***************************************************************************)
(* JavaScript values.  A string is the sequence of its characters.         *)
(***************************************************************************)
Undefined == [t |-> "undefined"]
Null      == [t |-> "null"]
NaN       == [t |-> "NaN"]
Num(n)    == [t |-> "number", n |-> n]
Str(s)    == [t |-> "string", s |-> s]
Arr(xs)   == [t |-> "array", items |-> xs]

Player(name, hcap) == [t |-> "object", name |-> name, hcap |-> hcap]
Cell(h, a)         == [t |-> "object", h |-> h, a |-> a]
Exchange(home, away) == [t |-> "object", home |-> home, away |-> away]
MatchState(home, away, exchange, scores) ==
  [t |-> "object", home |-> home, away |-> away,
   exchange |-> exchange, scores |-> scores]

IsArray(v)  == v.t = "array"
IsObject(v) == v.t = "object"
IsNullish(v) == v.t \in {"undefined", "null"}

\* v[key] of JavaScript for a value that is not null or undefined: a property
\* the value does not have reads as undefined.
Prop(v, key) ==
  IF IsObject(v) /\ key \in DOMAIN v THEN v[key] ELSE Undefined

\* arr[i] with a 0-based index; out of range (or not an array) reads undefined.
At(v, i) ==
  IF IsArray(v) /\ i >= 0 /\ i < Len(v.items) THEN v.items[i + 1] ELSE Undefined

\* ToBoolean
Truthy(v) ==
  CASE v.t \in {"undefined", "null", "NaN"} -> FALSE
    [] v.t = "number" -> v.n # 0
    [] v.t = "string" -> Len(v.s) > 0
    [] OTHER -> TRUE

(***************************************************************************)
(* Strings and numbers.                                                    *)
(***************************************************************************)
Digits == {"0", "1", "2", "3", "4", "5", "6", "7", "8", "9"}

DigitVal(c) ==
  CASE c = "0" -> 0 [] c = "1" -> 1 [] c = "2" -> 2 [] c = "3" -> 3
    [] c = "4" -> 4 [] c = "5" -> 5 [] c = "6" -> 6 [] c = "7" -> 7
    [] c = "8" -> 8 [] c = "9" -> 9

RECURSIVE SkipSpaces(_)
SkipSpaces(s) ==
  IF Len(s) > 0 /\ Head(s) = " " THEN SkipSpaces(Tail(s)) ELSE s

RECURSIVE TrimRight(_)
TrimRight(s) ==
  IF Len(s) > 0 /\ s[Len(s)] = " " THEN TrimRight(SubSeq(s, 1, Len(s) - 1)) ELSE s

\* The longest prefix of s made of digits.
RECURSIVE DigitPrefix(_)
DigitPrefix(s) ==
  IF Len(s) > 0 /\ Head(s) \in Digits
    THEN <<Head(s)>> \o DigitPrefix(Tail(s))
    ELSE <<>>

RECURSIVE DigitsValue(_)
DigitsValue(ds) ==
  IF Len(ds) = 0 THEN 0
  ELSE 10 * DigitsValue(SubSeq(ds, 1, Len(ds) - 1)) + DigitVal(ds[Len(ds)])

\* Number.parseInt(v, 10) of a string: leading white space is skipped, one sign
\* is read, then as many decimal digits as there are; no digit gives NaN.
ParseIntChars(s) ==
  LET s1   == SkipSpaces(s)
      neg  == Len(s1) > 0 /\ Head(s1) = "-"
      sgn  == Len(s1) > 0 /\ Head(s1) \in {"-", "+"}
      body == IF sgn THEN Tail(s1) ELSE s1
      ds   == DigitPrefix(body)
  IN  IF Len(ds) = 0 THEN NaN
      ELSE Num(IF neg THEN 0 - DigitsValue(ds) ELSE DigitsValue(ds))

\* Number.parseInt(v, 10) of any value: the value is first turned into a string;
\* null and undefined become "null" and "undefined", which hold no digit.
ParseInt(v) ==
  CASE v.t = "string" -> ParseIntChars(v.s)
    [] v.t = "number" -> v
    [] OTHER -> NaN

\* Number(s) of a string without fraction, exponent or radix prefix: white
\* space is trimmed, the empty string is 0, a signed run of digits is its
\* value, anything else is NaN.
StringToNumber(s) ==
  LET s1   == TrimRight(SkipSpaces(s))
      neg  == Len(s1) > 0 /\ Head(s1) = "-"
      sgn  == Len(s1) > 0 /\ Head(s1) \in {"-", "+"}
      body == IF sgn THEN Tail(s1) ELSE s1
      ds   == DigitPrefix(body)
  IN  IF Len(s1) = 0 THEN Num(0)
      ELSE IF Len(ds) = 0 \/ Len(ds) # Len(body) THEN NaN
      ELSE Num(IF neg THEN 0 - DigitsValue(ds) ELSE DigitsValue(ds))

\* Number(v): ToNumber.
RECURSIVE ToNumber(_)
ToNumber(v) ==
  CASE v.t = "number"    -> v
    [] v.t = "NaN"       -> NaN
    [] v.t = "undefined" -> NaN
    [] v.t = "null"      -> Num(0)
    [] v.t = "string"    -> StringToNumber(v.s)
    [] v.t = "array"     ->
         IF Len(v.items) = 0 THEN Num(0)
         ELSE IF Len(v.items) = 1
           THEN (IF IsNullish(v.items[1]) THEN Num(0) ELSE ToNumber(v.items[1]))
           ELSE NaN
    [] OTHER             -> NaN

IsNaN(v) == v.t = "NaN"

Max(a, b) == IF a >= b THEN a ELSE b
Min(a, b) == IF a <= b THEN a ELSE b

(***************************************************************************)
(* Input coercion.                                                         *)
(***************************************************************************)
Blank == Str(<<>>)

\* clampIntOrBlank with a seeded fault: an unparseable value becomes 0.
clampIntOrBlankZero(v, min, max) ==
  IF v = Blank \/ IsNullish(v) THEN Blank
  ELSE LET n == ParseInt(v)
       IN  IF IsNaN(n) THEN Num(0) ELSE Num(Max(min, Min(max, n.n)))

\* clampIntOrBlank with a seeded fault: the lower limit is not applied.
clampIntOrBlankNoMin(v, min, max) ==
  IF v = Blank \/ IsNullish(v) THEN Blank
  ELSE LET n == ParseInt(v)
       IN  IF IsNaN(n) THEN Blank ELSE Num(Min(max, n.n))

clampIntOrBlank(v, min, max) ==
  IF v = Blank \/ IsNullish(v) THEN Blank
  ELSE LET n == ParseInt(v)
       IN  IF IsNaN(n) THEN Blank ELSE Num(Max(min, Min(max, n.n)))

\* clampInt with a seeded fault: the upper limit is not applied.
clampIntNoMax(v, min, max) ==
  LET n == ParseInt(v)
  IN  IF IsNaN(n) THEN Num(0) ELSE Num(Max(min, n.n))

\* clampInt with a seeded fault: the lower limit is not applied.
clampIntNoMin(v, min, max) ==
  LET n == ParseInt(v)
  IN  IF IsNaN(n) THEN Num(0) ELSE Num(Min(max, n.n))

clampInt(v, min, max) ==
  LET n == ParseInt(v)
  IN  IF IsNaN(n) THEN Num(0) ELSE Num(Max(min, Min(max, n.n)))

(***************************************************************************)
(* The builds and their storage keys.                                      *)
(***************************************************************************)
V2   == "v2"
V105 == "1.0.5"
Versions == {V2, V105}

\* STORAGE_KEY with a seeded fault: the newer build keeps the older build's key.
STORAGE_KEY_Shared(v) == "handicap-cup-v2"

STORAGE_KEY(v) ==
  IF v = V2 THEN "handicap-cup-v2" ELSE "handicap-cup-1.0.5"

Keys == {STORAGE_KEY(v) : v \in Versions}

(***************************************************************************)
(* The pairing schedule: row r (0-based) of the table is MATCH_ORDER[r+1]. *)
(***************************************************************************)
\* MATCH_ORDER with a seeded fault: the last two pairings are the same.
MATCH_ORDER_Repeated ==
  <<[h |-> 2, a |-> 1], [h |-> 1, a |-> 3], [h |-> 3, a |-> 2],
    [h |-> 2, a |-> 3], [h |-> 3, a |-> 1], [h |-> 1, a |-> 2],
    [h |-> 3, a |-> 3], [h |-> 2, a |-> 2], [h |-> 2, a |-> 2]>>

MATCH_ORDER ==
  <<[h |-> 2, a |-> 1], [h |-> 1, a |-> 3], [h |-> 3, a |-> 2],
    [h |-> 2, a |-> 3], [h |-> 3, a |-> 1], [h |-> 1, a |-> 2],
    [h |-> 3, a |-> 3], [h |-> 2, a |-> 2], [h |-> 1, a |-> 1]>>

(***************************************************************************)
(* The default Match State.                                                *)
(***************************************************************************)
HomeName(i) == <<"H", "o", "m", "e", " ">> \o
               <<CASE i = 1 -> "1" [] i = 2 -> "2" [] OTHER -> "3">>
AwayName(i) == <<"A", "w", "a", "y", " ">> \o
               <<CASE i = 1 -> "1" [] i = 2 -> "2" [] OTHER -> "3">>

defaultHome == Arr([i \in 1..3 |-> Player(Str(HomeName(i)), Num(0))])
defaultAway == Arr([i \in 1..3 |-> Player(Str(AwayName(i)), Num(0))])
defaultExchange == Arr([r \in 1..9 |-> Exchange(Num(0), Num(0))])
defaultScores ==
  Arr([r \in 1..9 |-> Arr([g \in 1..4 |-> Cell(Blank, Blank)])])

defaultState(v) ==
  MatchState(defaultHome, defaultAway,
             IF v = V2 THEN defaultExchange ELSE Undefined,
             defaultScores)

(***************************************************************************)
(* JSON text.  A document is the tree the text denotes; its leaves are     *)
(* JSON literals, and a member an object does not have is "absent".        *)
(***************************************************************************)
JNull    == [j |-> "null"]
JAbsent  == [j |-> "absent"]
JNum(n)  == [j |-> "number", n |-> n]
JStr(s)  == [j |-> "string", s |-> s]
JArr(xs) == [j |-> "array", items |-> xs]

\* JSON.stringify: null and NaN are written null; undefined is written null
\* inside an array and the member is left out inside an object.
RECURSIVE Stringify(_)
\* Stringify with a seeded fault: an empty string is written as the number 0.
StringifyFalsyZero(v) ==
  CASE v.t = "number"    -> JNum(v.n)
    [] v.t = "string"    -> IF Len(v.s) = 0 THEN JNum(0) ELSE JStr(v.s)
    [] v.t = "null"      -> JNull
    [] v.t = "NaN"       -> JNull
    [] v.t = "undefined" -> JAbsent
    [] v.t = "array"     ->
         JArr([i \in 1..Len(v.items) |->
                 IF v.items[i].t = "undefined" THEN JNull
                 ELSE Stringify(v.items[i])])
    [] OTHER ->
         [k \in (DOMAIN v \ {"t"}) \cup {"j"} |->
            IF k = "j" THEN "object" ELSE Stringify(v[k])]

Stringify(v) ==
  CASE v.t = "number"    -> JNum(v.n)
    [] v.t = "string"    -> JStr(v.s)
    [] v.t = "null"      -> JNull
    [] v.t = "NaN"       -> JNull
    [] v.t = "undefined" -> JAbsent
    [] v.t = "array"     ->
         JArr([i \in 1..Len(v.items) |->
                 IF v.items[i].t = "undefined" THEN JNull
                 ELSE Stringify(v.items[i])])
    [] OTHER ->
         [k \in (DOMAIN v \ {"t"}) \cup {"j"} |->
            IF k = "j" THEN "object" ELSE Stringify(v[k])]

\* JSON.parse of well-formed text.
RECURSIVE Parse(_)
Parse(d) ==
  CASE d.j = "number" -> Num(d.n)
    [] d.j = "string" -> Str(d.s)
    [] d.j = "null"   -> Null
    [] d.j = "absent" -> Undefined
    [] d.j = "array"  -> Arr([i \in 1..Len(d.items) |-> Parse(d.items[i])])
    [] OTHER ->
         [k \in (DOMAIN d \ {"j"}) \cup {"t"} |->
            IF k = "t" THEN "object" ELSE Parse(d[k])]

(***************************************************************************)
(* localStorage items.                                                     *)
(***************************************************************************)
NoItem        == [k |-> "none"]        \* getItem returns null
EmptyText     == [k |-> "empty"]       \* the empty string
MalformedText == [k |-> "malformed"]   \* text JSON.parse rejects
JsonText(d)   == [k |-> "json", doc |-> d]

\* loadState105 with a seeded fault: home handicaps are clamped on load.
loadState105Clamping(item) ==
  IF item.k \in {"none", "empty", "malformed"} THEN defaultState(V105)
  ELSE LET s == Parse(item.doc)
       IN  IF IsNullish(s) THEN defaultState(V105)
           ELSE IF ~Truthy(Prop(s, "scores")) THEN defaultState(V105)
           ELSE IF ~IsArray(Prop(s, "home")) \/ ~IsArray(Prop(s, "away"))
             THEN defaultState(V105)
           ELSE IF ~IsArray(Prop(s, "scores")) \/ Len(Prop(s, "scores").items) # 9
             THEN defaultState(V105)
           ELSE [s EXCEPT !.home =
                   Arr([i \in 1..Len(s.home.items) |->
                          IF IsObject(s.home.items[i])
                             /\ "hcap" \in DOMAIN s.home.items[i]
                             /\ s.home.items[i].hcap.t = "number"
                            THEN [s.home.items[i] EXCEPT !.hcap =
                                    Num(Max(0, Min(999, s.home.items[i].hcap.n)))]
                            ELSE s.home.items[i]])]

\* loadState105 with a seeded fault: the length of 9 is required of the home
\* roster instead of the grid.
loadState105RosterOfNine(item) ==
  IF item.k \in {"none", "empty", "malformed"} THEN defaultState(V105)
  ELSE LET s == Parse(item.doc)
       IN  IF IsNullish(s) THEN defaultState(V105)
           ELSE IF ~Truthy(Prop(s, "scores")) THEN defaultState(V105)
           ELSE IF ~IsArray(Prop(s, "home")) \/ ~IsArray(Prop(s, "away"))
             THEN defaultState(V105)
           ELSE IF ~IsArray(Prop(s, "scores")) \/ Len(Prop(s, "home").items) # 9
             THEN defaultState(V105)
           ELSE s

\* loadState of build 1.0.5.  Reading s.scores of null raises a TypeError,
\* which the catch turns into the default.
loadState105(item) ==
  IF item.k \in {"none", "empty"} THEN defaultState(V105)
  ELSE IF item.k = "malformed" THEN defaultState(V105)
  ELSE LET s == Parse(item.doc)
       IN  IF IsNullish(s) THEN defaultState(V105)
           ELSE IF ~Truthy(Prop(s, "scores")) THEN defaultState(V105)
           ELSE IF ~IsArray(Prop(s, "home")) \/ ~IsArray(Prop(s, "away"))
             THEN defaultState(V105)
           ELSE IF ~IsArray(Prop(s, "scores")) \/ Len(Prop(s, "scores").items) # 9
             THEN defaultState(V105)
           ELSE s

\* loadState of build v2, for a document that is null or an object: a missing
\* (falsy) exchange or scores member is filled in; nothing else is checked.
loadStateV2(item) ==
  IF item.k \in {"none", "empty"} THEN defaultState(V2)
  ELSE IF item.k = "malformed" THEN defaultState(V2)
  ELSE LET s  == Parse(item.doc)
           s1 == IF ~Truthy(Prop(s, "exchange"))
                   THEN [s EXCEPT !.exchange = defaultExchange] ELSE s
           s2 == IF ~Truthy(Prop(s1, "scores"))
                   THEN [s1 EXCEPT !.scores = defaultScores] ELSE s1
       IN  IF IsNullish(s) THEN defaultState(V2) ELSE s2

loadState(v, item) ==
  IF v = V2 THEN loadStateV2(item) ELSE loadState105(item)

\* localStorage.getItem(STORAGE_KEY) of the running build.
getItem(v, store) == store[STORAGE_KEY(v)]

\* saveState with a seeded fault: the write is lost.
saveStateLost(v, store, st) == store

\* saveState: only the running build's key is written.
saveState(v, store, st) ==
  [store EXCEPT ![STORAGE_KEY(v)] = JsonText(Stringify(st))]

(***************************************************************************)
(* Totals.  A sum is a JavaScript number; the operators below give the     *)
(* value a computation returns when it raises no TypeError, and the        *)
(* ...Raises predicates say when it does raise one.                        *)
(***************************************************************************)
JsAdd(x, y) == IF IsNaN(x) \/ IsNaN(y) THEN NaN ELSE Num(x.n + y.n)

\* f(lo) + ... + f(hi) added onto acc, in the loop's order.
RECURSIVE Accumulate(_, _, _, _)
Accumulate(acc, f, lo, hi) ==
  IF lo > hi THEN acc ELSE Accumulate(JsAdd(acc, f[lo]), f, lo + 1, hi)

\* `if (!Number.isNaN(x)) total += x` for x = Number(v)
PointsOf(v) == LET x == ToNumber(v) IN IF IsNaN(x) THEN Num(0) ELSE x

\* `Number(p.hcap) || 0`
HcapOf(p) ==
  LET x == ToNumber(Prop(p, "hcap")) IN IF Truthy(x) THEN x ELSE Num(0)

\* `Number(state.exchange[r]?.home || 0)`
ExchangeOf(st, r, side) ==
  LET e == At(st.exchange, r)
      v == IF IsNullish(e) THEN Undefined ELSE Prop(e, side)
  IN  ToNumber(IF Truthy(v) THEN v ELSE Num(0))

\* team.reduce(...) raises when team is no array or holds null/undefined.
sumHandicapsRaises(team) ==
  \/ ~IsArray(team)
  \/ \E i \in 1..Len(team.items) : IsNullish(team.items[i])

\* sumHandicaps with a seeded fault: the last player is left out.
sumHandicapsDropLast(team) ==
  Accumulate(Num(0), [i \in 1..Len(team.items) |-> HcapOf(team.items[i])],
             1, Len(team.items) - 1)

sumHandicaps(team) ==
  Accumulate(Num(0), [i \in 1..Len(team.items) |-> HcapOf(team.items[i])],
             1, Len(team.items))

\* state.scores[r][g]; reading [g] of a missing row, or .h of a missing cell,
\* raises.
CellAt(st, r, g) == At(At(st.scores, r), g)
rowRaises(st, r) ==
  \/ IsNullish(st.scores)
  \/ IsNullish(At(st.scores, r))
  \/ \E g \in 0..3 : IsNullish(CellAt(st, r, g))

\* rowSetTotals with a seeded fault: the loop stops one game early.
rowSetTotalsShort(st, r) ==
  [home |-> Accumulate(Num(0),
              [g \in 0..3 |-> PointsOf(Prop(CellAt(st, r, g), "h"))], 0, 2),
   away |-> Accumulate(Num(0),
              [g \in 0..3 |-> PointsOf(Prop(CellAt(st, r, g), "a"))], 0, 2)]

\* rowSetTotals (1.0.5); in v2 the same sum is the inner loop over g.
rowSetTotals(st, r) ==
  [home |-> Accumulate(Num(0),
              [g \in 0..3 |-> PointsOf(Prop(CellAt(st, r, g), "h"))], 0, 3),
   away |-> Accumulate(Num(0),
              [g \in 0..3 |-> PointsOf(Prop(CellAt(st, r, g), "a"))], 0, 3)]

\* sumPointsAll of 1.0.5: rows 0..8 through rowSetTotals, as the loop adds
\* them.
RECURSIVE SumPointsLoop(_, _, _, _)
SumPointsLoop(st, r, home, away) ==
  IF r > 8 THEN [home |-> home, away |-> away]
  ELSE LET rt == rowSetTotals(st, r)
       IN  SumPointsLoop(st, r + 1, JsAdd(home, rt.home), JsAdd(away, rt.away))

sumPointsAll105(st) == SumPointsLoop(st, 0, Num(0), Num(0))

\* sumPointsAll of v2: the rows and cells the grid actually has.
RowLen(st, r) == IF IsArray(At(st.scores, r)) THEN Len(At(st.scores, r).items) ELSE 0
GridLen(st)   == IF IsArray(st.scores) THEN Len(st.scores.items) ELSE 0
rowPointsV2(st, r, side) ==
  Accumulate(Num(0),
    [g \in 0..(RowLen(st, r) - 1) |-> PointsOf(Prop(CellAt(st, r, g), side))],
    0, RowLen(st, r) - 1)
sumPointsAllV2(st) ==
  [home |-> Accumulate(Num(0),
              [r \in 0..(GridLen(st) - 1) |-> rowPointsV2(st, r, "h")],
              0, GridLen(st) - 1),
   away |-> Accumulate(Num(0),
              [r \in 0..(GridLen(st) - 1) |-> rowPointsV2(st, r, "a")],
              0, GridLen(st) - 1)]
sumPointsAllV2Raises(st) ==
  \/ IsNullish(st.scores)
  \/ \E r \in 0..(GridLen(st) - 1) :
       \/ IsNullish(At(st.scores, r))
       \/ \E g \in 0..(RowLen(st, r) - 1) : IsNullish(CellAt(st, r, g))

sumPointsAll(v, st) == IF v = V2 THEN sumPointsAllV2(st) ELSE sumPointsAll105(st)

sumExchangeAll(st) ==
  LET n == IF IsArray(st.exchange) THEN Len(st.exchange.items) ELSE 0
  IN  [home |-> Accumulate(Num(0), [r \in 0..(n - 1) |-> ExchangeOf(st, r, "home")],
                           0, n - 1),
       away |-> Accumulate(Num(0), [r \in 0..(n - 1) |-> ExchangeOf(st, r, "away")],
                           0, n - 1)]

\* The loop of computeRunningTotalsByRow from row r on: the row's points are
\* added to the run (in v2 cell by cell, which is the same sum), then in v2
\* the row's exchange, and the run is pushed onto rows.
RECURSIVE RunningLoop(_, _, _, _, _, _)
RunningLoop(v, st, r, runHome, runAway, rows) ==
  IF r > 8 THEN rows
  ELSE LET rt == rowSetTotals(st, r)
           h  == IF v = V2
                   THEN JsAdd(JsAdd(runHome, rt.home), ExchangeOf(st, r, "home"))
                   ELSE JsAdd(runHome, rt.home)
           a  == IF v = V2
                   THEN JsAdd(JsAdd(runAway, rt.away), ExchangeOf(st, r, "away"))
                   ELSE JsAdd(runAway, rt.away)
       IN  RunningLoop(v, st, r + 1, h, a,
                       Append(rows, [totalHome |-> h, totalAway |-> a]))

\* computeRunningTotalsByRow with a seeded fault: the run starts at 0, not at
\* the handicap base.
computeRunningTotalsByRowZeroBase(v, st) ==
  [baseHome |-> sumHandicaps(st.home),
   baseAway |-> sumHandicaps(st.away),
   rows |-> RunningLoop(v, st, 0, Num(0), Num(0), <<>>)]

\* computeRunningTotalsByRow: rows is the array of the 9 runs; the run after
\* row r (0-based) is rows[r + 1] here.
computeRunningTotalsByRow(v, st) ==
  [baseHome |-> sumHandicaps(st.home),
   baseAway |-> sumHandicaps(st.away),
   rows |-> RunningLoop(v, st, 0, sumHandicaps(st.home), sumHandicaps(st.away),
                        <<>>)]

computeRunningTotalsByRowRaises(v, st) ==
  \/ sumHandicapsRaises(st.home)
  \/ sumHandicapsRaises(st.away)
  \/ \E r \in 0..8 : rowRaises(st, r)
  \/ (v = V2 /\ IsNullish(st.exchange))

\* The grand totals renderTotalsOnly writes to the header.
grandTotals(v, st) ==
  LET pts == sumPointsAll(v, st)
      ex  == IF v = V2 THEN sumExchangeAll(st) ELSE [home |-> Num(0), away |-> Num(0)]
  IN  [home |-> JsAdd(JsAdd(sumHandicaps(st.home), pts.home), ex.home),
       away |-> JsAdd(JsAdd(sumHandicaps(st.away), pts.away), ex.away)]

renderTotalsOnlyRaises(v, st) ==
  \/ sumHandicapsRaises(st.home)
  \/ sumHandicapsRaises(st.away)
  \/ (IF v = V2 THEN sumPointsAllV2Raises(st) ELSE \E r \in 0..8 : rowRaises(st, r))
  \/ (v = V2 /\ IsNullish(st.exchange))

(***************************************************************************)
(* Which inputs the page offers.  renderAll builds the roster rows, then   *)
(* the table; a TypeError raised on the way ends it, and what was not yet  *)
(* attached to the page is not there to be edited.  The handlers change    *)
(* leaf values only, so what renderAll attaches depends on the shape of    *)
(* the state alone.                                                        *)
(***************************************************************************)
Team(st, teamKey) == IF teamKey = "home" THEN st.home ELSE st.away

\* The number of roster rows renderRoster appends before it ends or raises.
RosterRows(team) ==
  IF ~IsArray(team) THEN 0
  ELSE IF \E i \in 1..Len(team.items) : IsNullish(team.items[i])
    THEN (CHOOSE i \in 1..Len(team.items) :
            /\ IsNullish(team.items[i])
            /\ \A k \in 1..(i - 1) : ~IsNullish(team.items[k])) - 1
    ELSE Len(team.items)

renderRosterRaises(team) ==
  ~IsArray(team) \/ \E i \in 1..Len(team.items) : IsNullish(team.items[i])

renderMatchesOnlyRaises(v, st) == computeRunningTotalsByRowRaises(v, st)

\* The name and handicap inputs of player idx (0-based) are on the page.
RosterInput(st, teamKey, idx) ==
  /\ idx < RosterRows(Team(st, teamKey))
  /\ teamKey = "away" => ~renderRosterRaises(st.home)

\* The score (and, in v2, exchange) inputs are on the page.
GridInputs(v, st) ==
  /\ ~renderRosterRaises(st.home)
  /\ ~renderRosterRaises(st.away)
  /\ ~renderMatchesOnlyRaises(v, st)

(***************************************************************************)
(* What the page displays.  header: the grand totals renderTotalsOnly      *)
(* writes; table: the set totals (1.0.5), the 9 running totals and the     *)
(* bottom total of the table renderMatchesOnly builds.  Each of the two is *)
(* always written as a whole from one Match State, so the page is recorded *)
(* as the Match State each was last written from, and HeaderText and       *)
(* TableText give the values on display.  A render that raises leaves what *)
(* it was about to replace as it is: renderTotalsOnly computes every sum   *)
(* before it writes, renderMatchesOnly swaps the table in at its end, and  *)
(* a handler ends at the first call that raises.                           *)
(***************************************************************************)
NotShown == [k |-> "none"]

Header(v, st) == [k |-> "header", from |-> st]

Table(v, st) == [k |-> "table", from |-> st]

\* The grand totals in the header.
HeaderText(v, header) == grandTotals(v, header.from)

\* The set totals (1.0.5; v2 has no such column), the running totals and
\* the bottom total in the table.
TableText(v, table) ==
  LET rows == computeRunningTotalsByRow(v, table.from).rows
  IN  [sets |-> IF v = V2 THEN <<>>
                ELSE [r \in 1..9 |-> rowSetTotals(table.from, r - 1)],
       rows |-> rows,
       final |-> rows[9]]

\* The page right after it is loaded, before the script has run.
BlankPage == [header |-> NotShown, table |-> NotShown]

renderTotalsOnly(v, st, page) == [page EXCEPT !.header = Header(v, st)]

renderMatchesOnly(v, st, page) == [page EXCEPT !.table = Table(v, st)]

\* updateAllRunningTotalsCells (1.0.5): the cells of the table, when there
\* is one, are rewritten in place.
updateAllRunningTotalsCells(v, st, page) ==
  IF page.table = NotShown THEN page ELSE [page EXCEPT !.table = Table(v, st)]

\* renderAll: the rosters, then the table, then the header.
renderAll(v, st, page) ==
  IF renderRosterRaises(st.home) \/ renderRosterRaises(st.away)
       \/ renderMatchesOnlyRaises(v, st)
    THEN page
  ELSE IF renderTotalsOnlyRaises(v, st) THEN renderMatchesOnly(v, st, page)
  ELSE renderTotalsOnly(v, st, renderMatchesOnly(v, st, page))

\* The calls that follow saveState() in the name input's handler.
AfterName(v, st, page) ==
  IF v = V2 /\ ~renderMatchesOnlyRaises(v, st)
    THEN renderMatchesOnly(v, st, page) ELSE page

\* ... in the handicap input's handler.
AfterHcap(v, st, page) ==
  IF renderTotalsOnlyRaises(v, st) THEN page
  ELSE LET p1 == renderTotalsOnly(v, st, page)
       IN  IF computeRunningTotalsByRowRaises(v, st) THEN p1
           ELSE IF v = V2 THEN renderMatchesOnly(v, st, p1)
           ELSE updateAllRunningTotalsCells(v, st, p1)

\* ... in a score input's handler: 1.0.5 rewrites the header only and leaves
\* the table to the blur handler; v2 rebuilds the table.
AfterScore(v, st, page) ==
  IF renderTotalsOnlyRaises(v, st) THEN page
  ELSE LET p1 == renderTotalsOnly(v, st, page)
       IN  IF v = V2 /\ ~renderMatchesOnlyRaises(v, st)
             THEN renderMatchesOnly(v, st, p1) ELSE p1

(***************************************************************************)
(* The data-model invariants of a Match State.                             *)
(***************************************************************************)
HandicapOk(h) == h.t = "number" /\ h.n >= 0 /\ h.n <= 999
PointsOk(x)   == x = Blank \/ (x.t = "number" /\ x.n >= 0 /\ x.n <= 11)

RosterOk(team) ==
  /\ IsArray(team)
  /\ Len(team.items) = 3
  /\ \A i \in 1..3 : IsObject(team.items[i]) /\ HandicapOk(Prop(team.items[i], "hcap"))

GridOk(scores) ==
  /\ IsArray(scores)
  /\ Len(scores.items) = 9
  /\ \A r \in 1..9 :
       /\ IsArray(scores.items[r])
       /\ Len(scores.items[r].items) = 4
       /\ \A g \in 1..4 :
            /\ IsObject(scores.items[r].items[g])
            /\ PointsOk(Prop(scores.items[r].items[g], "h"))
            /\ PointsOk(Prop(scores.items[r].items[g], "a"))

Valid(st) ==
  /\ IsObject(st)
  /\ RosterOk(st.home)
  /\ RosterOk(st.away)
  /\ GridOk(st.scores)

(***************************************************************************)
(* Inputs of the exploration: what the storage holds when the script       *)
(* starts, and what the user types.                                        *)
(***************************************************************************)
Chars(n) ==
  CASE n = 0 -> <<"0">> [] n = 3 -> <<"3">> [] n = 5 -> <<"5">>
    [] n = 7 -> <<"7">> [] n = 10 -> <<"1", "0">> [] n = 11 -> <<"1", "1">>
    [] n = 15 -> <<"1", "5">> [] n = 1000 -> <<"1", "0", "0", "0">>

\* Name edits: <<team, player index (0-based), text>>.
NameEdits == {<<"home", 0, <<"A", "l">>>>, <<"away", 2, <<>>>>}

\* Handicap edits: <<team, player index (0-based), text>>.
HcapEdits ==
  {<<"home", 0, Chars(10)>>, <<"home", 0, <<"a", "b", "c">>>>,
   <<"home", 0, Chars(1000)>>,
   <<"away", 2, <<"-">> \o Chars(5)>>, <<"away", 2, <<>>>>}

\* Score edits: <<row, game, side, text>>, row and game 0-based.
ScoreEdits ==
  {<<0, 0, "h", Chars(11)>>, <<0, 0, "h", <<>>>>, <<0, 0, "h", Chars(0)>>,
   <<0, 0, "h", Chars(15)>>,
   <<0, 0, "a", Chars(3)>>, <<0, 0, "a", <<"x">>>>,
   <<0, 0, "a", <<"-">> \o Chars(3)>>,
   <<8, 3, "a", Chars(7)>>}

\* Exchange edits (v2): <<row (0-based), side, text>>.
ExchangeEdits == {<<4, "home", <<"-">> \o Chars(5)>>, <<4, "away", Chars(3)>>}

SetCell(scores, r, g, cell) ==
  [scores EXCEPT !.items[r + 1].items[g + 1] = cell]

\* A match in progress with every value in range.
SampleHome ==
  Arr(<<Player(Str(<<"A", "l">>), Num(10)), Player(Str(HomeName(2)), Num(0)),
        Player(Str(<<>>), Num(999))>>)
SampleScores ==
  SetCell(SetCell(defaultScores, 0, 0, Cell(Num(11), Num(3))),
          8, 3, Cell(Num(0), Blank))
SampleExchange ==
  Arr([r \in 1..9 |-> IF r = 5 THEN Exchange(Num(0 - 5), Num(3))
                      ELSE Exchange(Num(0), Num(0))])
Sample105 == MatchState(SampleHome, defaultAway, Undefined, SampleScores)
SampleV2  == MatchState(SampleHome, defaultAway, SampleExchange, SampleScores)

\* Documents that are not a Match State in one way each.
NoScores   == MatchState(SampleHome, defaultAway, Undefined, Undefined)
EightRows  == MatchState(SampleHome, defaultAway, Undefined,
                         Arr(SubSeq(SampleScores.items, 1, 8)))
ScoresNotArray == MatchState(SampleHome, defaultAway, Undefined, Num(5))
ShortRow   == MatchState(SampleHome, defaultAway, Undefined,
                [SampleScores EXCEPT !.items[2] =
                   Arr(SubSeq(SampleScores.items[2].items, 1, 3))])
NoPlayers  == MatchState(Arr(<<>>), defaultAway, Undefined, SampleScores)
TwoPlayers == MatchState(Arr(SubSeq(SampleHome.items, 1, 2)), defaultAway,
                         Undefined, SampleScores)
FourPlayers == MatchState(SampleHome,
                 Arr(defaultAway.items \o <<Player(Str(<<"A", "l">>), Num(7))>>),
                 Undefined, SampleScores)
HomeNotArray == MatchState(Undefined, defaultAway, Undefined, SampleScores)
BigHandicap == MatchState(
                 [SampleHome EXCEPT !.items[2].hcap = Num(5000)],
                 defaultAway, Undefined, SampleScores)
BigPoints  == MatchState(SampleHome, defaultAway, Undefined,
                SetCell(SampleScores, 4, 1, Cell(Num(15), Num(0 - 2))))
ShortExchange == MatchState(SampleHome, defaultAway,
                   Arr(SubSeq(SampleExchange.items, 1, 2)), SampleScores)
\* Every value in range, and a 10th exchange row.
LongExchange == MatchState(SampleHome, defaultAway,
                  Arr(SampleExchange.items \o <<Exchange(Num(4), Num(0))>>),
                  SampleScores)

\* A match whose payload holds texts and null where numbers belong.
TextValues ==
  MatchState(
    [SampleHome EXCEPT !.items[2].hcap = Str(<<"a", "b", "c">>),
                       !.items[3].hcap = Str(Chars(15))],
    [defaultAway EXCEPT !.items[1].hcap = Null, !.items[2].hcap = Str(<<>>)],
    Undefined,
    SetCell(SetCell(SampleScores, 2, 1, Cell(Str(Chars(7)), Str(<<"x">>))),
            2, 2, Cell(Null, Num(5))))

StoredItems ==
  {NoItem, EmptyText, MalformedText, JsonText(JNull)} \cup
  {JsonText(Stringify(d)) :
     d \in {Sample105, SampleV2, NoScores, EightRows, ScoresNotArray, ShortRow,
            NoPlayers, TwoPlayers, FourPlayers, HomeNotArray, BigHandicap,
            BigPoints, ShortExchange, LongExchange,
            TextValues}}

\* What the slot of a build that is not running holds at the start: a match
\* that build saved.
OtherItem(k) ==
  IF k = "handicap-cup-v2" THEN JsonText(Stringify(SampleV2))
  ELSE JsonText(Stringify(Sample105))

(***************************************************************************)
(* The script's start-up and the event handlers.                           *)
(***************************************************************************)
Mutations == {"name", "hcap", "score", "exchange", "reset"}

\* The script starts on a storage that holds anything.
Init ==
  /\ version \in Versions
  /\ storage \in {f \in [Keys -> StoredItems \cup {OtherItem(k) : k \in Keys}] :
                    \A k \in Keys : k # STORAGE_KEY(version) => f[k] = OtherItem(k)}
  /\ state = loadState(version, getItem(version, storage))
  /\ loadedOk = Valid(state)
  /\ lastOp = "startup"
  /\ matchOrder = MATCH_ORDER
  /\ shown = renderAll(version, state, BlankPage)
  /\ left = MaxSteps

\* The script starts on an empty storage.
InitFresh ==
  /\ version \in Versions
  /\ storage = [k \in Keys |-> NoItem]
  /\ state = loadState(version, getItem(version, storage))
  /\ loadedOk = Valid(state)
  /\ lastOp = "startup"
  /\ matchOrder = MATCH_ORDER
  /\ shown = renderAll(version, state, BlankPage)
  /\ left = MaxFreshSteps

\* The page is (re)loaded with build v: `let state = loadState()`.
Startup(v) ==
  /\ left > 0
  /\ version' = v
  /\ state' = loadState(v, getItem(v, storage))
  /\ loadedOk' = Valid(state')
  /\ lastOp' = "startup"
  /\ matchOrder' = MATCH_ORDER
  /\ shown' = renderAll(v, state', BlankPage)
  /\ left' = left - 1
  /\ UNCHANGED storage

\* The name input's handler.
NameInput(teamKey, idx, text) ==
  /\ left > 0
  /\ RosterInput(state, teamKey, idx)
  /\ state' = IF teamKey = "home"
                THEN [state EXCEPT !.home.items[idx + 1].name = Str(text)]
                ELSE [state EXCEPT !.away.items[idx + 1].name = Str(text)]
  /\ storage' = saveState(version, storage, state')
  /\ lastOp' = "name"
  /\ left' = left - 1
  /\ UNCHANGED matchOrder
  /\ shown' = AfterName(version, state', shown)
  /\ UNCHANGED <<version, loadedOk>>

\* The handicap input's handler.
HcapInput(teamKey, idx, text) ==
  /\ left > 0
  /\ RosterInput(state, teamKey, idx)
  /\ state' = IF teamKey = "home"
                THEN [state EXCEPT !.home.items[idx + 1].hcap =
                        clampInt(Str(text), 0, 999)]
                ELSE [state EXCEPT !.away.items[idx + 1].hcap =
                        clampInt(Str(text), 0, 999)]
  /\ storage' = saveState(version, storage, state')
  /\ lastOp' = "hcap"
  /\ left' = left - 1
  /\ UNCHANGED matchOrder
  /\ shown' = AfterHcap(version, state', shown)
  /\ UNCHANGED <<version, loadedOk>>

\* The score handler with a seeded fault: the 4 cells of a row are one object,
\* so the value typed into one game shows in every game of the row.
ScoreInputSharedCell(r, g, side, text) ==
  /\ left > 0
  /\ GridInputs(version, state)
  /\ state' = [state EXCEPT !.scores.items[r + 1].items =
                  [k \in 1..Len(@) |->
                     IF side = "h"
                       THEN [@[k] EXCEPT !.h = clampIntOrBlank(Str(text), 0, 11)]
                       ELSE [@[k] EXCEPT !.a = clampIntOrBlank(Str(text), 0, 11)]]]
  /\ storage' = saveState(version, storage, state')
  /\ lastOp' = "score"
  /\ left' = left - 1
  /\ UNCHANGED matchOrder
  /\ shown' = AfterScore(version, state', shown)
  /\ UNCHANGED <<version, loadedOk>>

\* The handler of a game's home ("h") or away ("a") points input.
ScoreInput(r, g, side, text) ==
  /\ left > 0
  /\ GridInputs(version, state)
  /\ state' = IF side = "h"
                THEN [state EXCEPT !.scores.items[r + 1].items[g + 1].h =
                        clampIntOrBlank(Str(text), 0, 11)]
                ELSE [state EXCEPT !.scores.items[r + 1].items[g + 1].a =
                        clampIntOrBlank(Str(text), 0, 11)]
  /\ storage' = saveState(version, storage, state')
  /\ lastOp' = "score"
  /\ left' = left - 1
  /\ UNCHANGED matchOrder
  /\ shown' = AfterScore(version, state', shown)
  /\ UNCHANGED <<version, loadedOk>>

\* v2 only: the handler of a row's exchange input.  Assigning to a member of
\* a missing state.exchange[r] raises before anything is changed or saved.
ExchangeInput(r, side, text) ==
  /\ left > 0
  /\ version = V2
  /\ GridInputs(version, state)
  /\ IF IsNullish(At(state.exchange, r))
       THEN UNCHANGED <<state, storage>>
       ELSE /\ state' = IF side = "home"
                  THEN [state EXCEPT !.exchange.items[r + 1].home =
                          clampInt(Str(text), 0 - 9999, 9999)]
                  ELSE [state EXCEPT !.exchange.items[r + 1].away =
                          clampInt(Str(text), 0 - 9999, 9999)]
            /\ storage' = saveState(version, storage, state')
  /\ lastOp' = IF IsNullish(At(state.exchange, r)) THEN "exchangeRaised"
               ELSE "exchange"
  /\ left' = left - 1
  /\ UNCHANGED matchOrder
  /\ shown' = IF IsNullish(At(state.exchange, r)) THEN shown
              ELSE AfterScore(version, state', shown)
  /\ UNCHANGED <<version, loadedOk>>

\* Reset with a seeded fault: only the grid is cleared, the rosters survive.
ResetKeepsRosters ==
  /\ left > 0
  /\ state' = [defaultState(version) EXCEPT !.home = state.home,
                                             !.away = state.away]
  /\ storage' = saveState(version, storage, state')
  /\ lastOp' = "reset"
  /\ left' = left - 1
  /\ UNCHANGED matchOrder
  /\ shown' = renderAll(version, state', shown)
  /\ UNCHANGED <<version, loadedOk>>

\* The reset button's handler, the confirm dialog answered OK.
Reset ==
  /\ left > 0
  /\ state' = defaultState(version)
  /\ storage' = saveState(version, storage, state')
  /\ lastOp' = "reset"
  /\ left' = left - 1
  /\ UNCHANGED matchOrder
  /\ shown' = renderAll(version, state', shown)
  /\ UNCHANGED <<version, loadedOk>>

\* The reset button's handler, the confirm dialog cancelled.
ResetCancelled ==
  /\ left > 0
  /\ lastOp' = "cancel"
  /\ left' = left - 1
  /\ UNCHANGED matchOrder
  /\ UNCHANGED shown
  /\ UNCHANGED <<version, storage, state, loadedOk>>

\* 1.0.5 only: a score input loses the focus; its blur handler rewrites the
\* set totals and the running totals in place.
Blur(r) ==
  /\ left > 0
  /\ version = V105
  /\ GridInputs(version, state)
  /\ shown' = updateAllRunningTotalsCells(version, state, shown)
  /\ lastOp' = "blur"
  /\ left' = left - 1
  /\ UNCHANGED <<version, storage, state, loadedOk, matchOrder>>

Next ==
  \/ \E v \in Versions : Startup(v)
  \/ \E e \in NameEdits : NameInput(e[1], e[2], e[3])
  \/ \E e \in HcapEdits : HcapInput(e[1], e[2], e[3])
  \/ \E e \in ScoreEdits : ScoreInput(e[1], e[2], e[3], e[4])
  \/ \E e \in ExchangeEdits : ExchangeInput(e[1], e[2], e[3])
  \/ Reset
  \/ ResetCancelled
  \/ \E r \in {e[1] : e \in ScoreEdits} : Blur(r)

Spec == Init /\ [][Next]_vars

SpecFresh == InitFresh /\ [][Next]_vars

(***************************************************************************)
(* Properties.                                                             *)
(***************************************************************************)
\* The item the running build's slot holds.
OwnItem == getItem(version, storage)

Hcap(st, teamKey, idx) == Prop(At(Team(st, teamKey), idx), "hcap")

\* C1 (as stated): after each mutation, whatever item the script started
\* from, the Match State satisfies all data-model invariants.
C1_ValidAfterAnyLoad == lastOp \in Mutations => Valid(state)

\* C1 (amended): every mutation preserves the data-model invariants (a Match
\* State that satisfies them before the handler runs satisfies them after it)
\* and a confirmed reset establishes them; a mutation does not repair the
\* other fields of a loaded state that violates them.
C1_MutationsPreserveValid ==
  [][/\ (Valid(state) /\ lastOp' \in Mutations) => Valid(state')
     /\ lastOp' = "reset" => Valid(state')
    ]_vars

\* C1 witness: a loaded match in range, a handicap typed as 1000 and stored
\* as 999, then a score edit.
C1_Witness ==
  /\ lastOp = "score"
  /\ loadedOk
  /\ state # defaultState(version)
  /\ Hcap(state, "home", 0) = Num(999)
  /\ Prop(CellAt(state, 0, 0), "h") = Num(11)

\* C2: after every mutation handler the running build's slot holds the
\* serialization of the in-memory Match State, and a load() at that point
\* returns a state equal to the in-memory one.
C2_StoredIsCurrent ==
  lastOp \in Mutations =>
    /\ OwnItem = JsonText(Stringify(state))
    /\ loadState(version, OwnItem) = state

\* C2 witness: a handicap edit on a state that did not come from the default.
C2_Witness ==
  /\ lastOp = "hcap"
  /\ Hcap(state, "home", 0) = Num(10)
  /\ ~loadedOk
  /\ OwnItem = JsonText(Stringify(state))

\* C3: for every Match State satisfying the data-model invariants, save
\* followed by load returns an equal state (blank stays blank, 0 stays 0).
C3_RoundTrip ==
  Valid(state) =>
    loadState(version, getItem(version, saveState(version, storage, state))) = state

\* C3 witness: a valid state holding a cell with 0 on one side and blank on
\* the other.
C3_Witness ==
  /\ Valid(state)
  /\ lastOp = "score"
  /\ Prop(CellAt(state, 0, 0), "h") = Num(0)
  /\ Prop(CellAt(state, 0, 0), "a") = Blank

\* The stored item holds no data, does not parse, or its document has no
\* score grid or a grid whose row count is not 9.
LacksGrid(item) ==
  \/ item.k \in {"none", "empty", "malformed"}
  \/ /\ item.k = "json"
     /\ \/ item.doc.j # "object"
        \/ item.doc.scores.j = "absent"
        \/ (item.doc.scores.j = "array" /\ Len(item.doc.scores.items) # 9)

\* C4: load() returns a fresh default whenever the slot holds no data, the
\* item does not parse, or the document has no score grid or not 9 rows.
C4_DefaultWithoutGrid ==
  (lastOp = "startup" /\ LacksGrid(OwnItem)) => state = defaultState(version)

\* The document is an object one of whose rosters is not an array of 3.
RosterNotThree(item) ==
  /\ item.k = "json"
  /\ item.doc.j = "object"
  /\ \/ item.doc.home.j # "array"
     \/ item.doc.away.j # "array"
     \/ (item.doc.home.j = "array" /\ Len(item.doc.home.items) # 3)
     \/ (item.doc.away.j = "array" /\ Len(item.doc.away.items) # 3)

\* C5: load() returns a fresh default whenever either roster of the parsed
\* document is not a sequence of exactly 3 elements.
C5_DefaultWithoutThreePlayers ==
  (lastOp = "startup" /\ RosterNotThree(OwnItem)) => state = defaultState(version)

\* The item parses and its document passes the checks loadState makes before
\* it returns the document: in 1.0.5 a truthy scores member, rosters that are
\* arrays, a scores array of length 9; in v2 only that the document is not
\* null.
PassesChecks(v, item) ==
  /\ item.k = "json"
  /\ item.doc.j = "object"
  /\ v = V105 =>
       /\ item.doc.scores.j = "array"
       /\ Len(item.doc.scores.items) = 9
       /\ item.doc.home.j = "array"
       /\ item.doc.away.j = "array"

C7_SlotsIsolated ==
  [][/\ \A k \in Keys : k # STORAGE_KEY(version) => storage'[k] = storage[k]
     /\ \A v \in Versions : v # version =>
          loadState(v, getItem(v, storage')) = loadState(v, getItem(v, storage))
    ]_vars

\* C7 witness: build v2 starts after build 1.0.5 saved an edited match, and
\* what it loads is the match its own slot held all along.
C7_Witness ==
  /\ lastOp = "startup"
  /\ version = V2
  /\ state = SampleV2
  /\ storage[STORAGE_KEY(V105)] =
       JsonText(Stringify(
         [defaultState(V105) EXCEPT !.home.items[1].hcap = Num(10)]))

RECURSIVE RowPoints(_, _, _)
RowPoints(st, side, r) ==
  IF r < 0 THEN <<>>
  ELSE Append(RowPoints(st, side, r - 1),
              IF side = "home" THEN rowSetTotals(st, r).home.n
              ELSE rowSetTotals(st, r).away.n)

RECURSIVE RowExchange(_, _, _)
RowExchange(st, side, r) ==
  IF r < 0 THEN <<>>
  ELSE Append(RowExchange(st, side, r - 1), ExchangeOf(st, r, side).n)

\* xs[1] + ... + xs[n]
RECURSIVE SumFirst(_, _)
SumFirst(xs, n) == IF n = 0 THEN 0 ELSE SumFirst(xs, n - 1) + xs[n]

\* The run of a side after row r (0-based), out of the computed rows.
RunOf(rows, side, r) ==
  IF side = "home" THEN rows[r + 1].totalHome ELSE rows[r + 1].totalAway

Running(v, st, side, r) == RunOf(computeRunningTotalsByRow(v, st).rows, side, r)

\* The fixed scenario: the default state with home player 1's handicap 10
\* and row 0, game 1 at home 11, away 3.
IsScenario(st) ==
  /\ st.home = [defaultHome EXCEPT !.items[1].hcap = Num(10)]
  /\ st.away = defaultAway
  /\ st.scores = SetCell(defaultScores, 0, 0, Cell(Num(11), Num(3)))
  /\ (st.exchange = Undefined \/ st.exchange = defaultExchange)

ScenarioTotals(v, st) ==
  /\ rowSetTotals(st, 0) = [home |-> Num(11), away |-> Num(3)]
  /\ Running(v, st, "home", 0) = Num(21)
  /\ Running(v, st, "away", 0) = Num(3)
  /\ grandTotals(v, st) = [home |-> Num(21), away |-> Num(3)]

\* C9 (as stated): every running total is the side's handicap total plus its
\* set totals of rows 0..r and nothing else; the fixed scenario gives set
\* total {11,3}, running total {21,3}, grand total {21,3}.
C9_RunningIsPrefixSum ==
  /\ LET rows == computeRunningTotalsByRow(version, state).rows
     IN  \A side \in {"home", "away"} :
           LET base == sumHandicaps(Team(state, side)).n
               pts  == RowPoints(state, side, 8)
           IN  \A r \in 0..8 :
                 RunOf(rows, side, r) = Num(base + SumFirst(pts, r + 1))
  /\ IsScenario(state) => ScenarioTotals(version, state)

\* C9 (amended): every running total is the side's handicap total plus its
\* set totals of rows 0..r plus, in build v2, its exchange adjustments of rows
\* 0..r; the fixed scenario gives {11,3}, {21,3}, {21,3}.
C9_RunningIsPrefixSumWithExchange ==
  /\ LET rows == computeRunningTotalsByRow(version, state).rows
     IN  \A side \in {"home", "away"} :
           LET base == sumHandicaps(Team(state, side)).n
               pts  == RowPoints(state, side, 8)
               ex   == RowExchange(state, side, 8)
           IN  \A r \in 0..8 :
                 RunOf(rows, side, r) =
                   Num(base + SumFirst(pts, r + 1)
                       + (IF version = V2 THEN SumFirst(ex, r + 1) ELSE 0))
  /\ IsScenario(state) => ScenarioTotals(version, state)

\* C9 witness: the fixed scenario, reached from the default state by one
\* handicap edit and two score edits.
C9_Witness == IsScenario(state) /\ lastOp = "score"

\* The running totals of a side never go down: not below the handicap base,
\* and not from one row to the next.
NonDecreasing(v, st, side) ==
  LET rows == computeRunningTotalsByRow(v, st).rows
      base == sumHandicaps(Team(st, side)).n
  IN  /\ \A r \in 0..8 : RunOf(rows, side, r).n >= base
      /\ \A r \in 1..8 :
           RunOf(rows, side, r).n >= RunOf(rows, side, r - 1).n

\* C10 (as stated): in every state reachable from the default state by the
\* input handlers, the running totals of both sides are non-decreasing from
\* the handicap base.
C10_RunningNonDecreasing ==
  \A side \in {"home", "away"} : NonDecreasing(version, state, side)

\* C10 (amended): the running totals of a side are non-decreasing from the
\* handicap base as long as none of that side's exchange adjustments (build
\* v2) is negative; build 1.0.5 has no exchange, so there they always are.
C10_RunningNonDecreasingWithoutNegativeExchange ==
  \A side \in {"home", "away"} :
    (version = V2 => \A r \in 0..8 : ExchangeOf(state, r, side).n >= 0)
      => NonDecreasing(version, state, side)

\* C10 witness: build v2 with points scored and a positive exchange.
C10_Witness ==
  /\ version = V2
  /\ lastOp = "score"
  /\ Prop(CellAt(state, 0, 0), "a") = Num(0)
  /\ ExchangeOf(state, 4, "away") = Num(3)
  /\ Prop(CellAt(state, 0, 0), "h") = Num(11)

\* What a typed text resolves to as a whole number: its leading integer, or
\* NaN when it has none.
Typed(text) == ParseIntChars(text)

\* C11: the handicap handler always leaves the targeted handicap a whole
\* number in 0..999: a typed value below 0 gives 0, above 999 gives 999, an
\* unparseable or blank one gives 0 whatever the handicap was before, and the
\* new value is persisted.
C11_HandicapClamped ==
  [][\A e \in HcapEdits :
       (lastOp' = "hcap" /\ HcapInput(e[1], e[2], e[3])) =>
         LET h == Hcap(state', e[1], e[2])
             n == Typed(e[3])
         IN  /\ h.t = "number" /\ h.n \in 0..999
             /\ IsNaN(n) => h = Num(0)
             /\ (~IsNaN(n) /\ n.n < 0) => h = Num(0)
             /\ (~IsNaN(n) /\ n.n > 999) => h = Num(999)
             /\ (~IsNaN(n) /\ n.n \in 0..999) => h = n
             /\ loadState(version, getItem(version, storage')) = state'
    ]_vars

\* C11 witness: the stored match has home player 1 at handicap 10; one
\* handicap edit later it is 0 (typed "abc" or "-..." or blank).
C11_Witness ==
  /\ lastOp = "hcap"
  /\ left = MaxSteps - 1
  /\ Prop(At(state.home, 0), "name") = Str(<<"A", "l">>)
  /\ Hcap(state, "home", 0) = Num(0)
  /\ Hcap(state, "home", 2) = Num(999)

\* The side e[3] of the cell a score edit e targets, in state st.
Side(st, r, g, side) == Prop(CellAt(st, r, g), side)

\* C12: the score handler always leaves the targeted cell side blank or a
\* whole number in 0..11: blank input stores blank, an unparseable input
\* stores blank and never 0, a value above 11 stores 11, a value below 0
\* stores 0, and the new value is persisted.
C12_CellClamped ==
  [][\A e \in ScoreEdits :
       (lastOp' = "score" /\ ScoreInput(e[1], e[2], e[3], e[4])) =>
         LET c == Side(state', e[1], e[2], e[3])
             n == Typed(e[4])
         IN  /\ PointsOk(c)
             /\ IsNaN(n) => c = Blank
             /\ (~IsNaN(n) /\ n.n < 0) => c = Num(0)
             /\ (~IsNaN(n) /\ n.n > 11) => c = Num(11)
             /\ (~IsNaN(n) /\ n.n \in 0..11) => c = n
             /\ loadState(version, getItem(version, storage')) = state'
    ]_vars

\* C12 witness: from the default state, row 0 game 1 holds home 11 and away
\* 0 after two score edits.
C12_Witness ==
  /\ lastOp = "score"
  /\ state.home = defaultHome
  /\ left = MaxSteps - 2
  /\ CellAt(state, 0, 0) = Cell(Num(11), Num(0))

\* The set total of a row for the side of a cell ("h" home, "a" away).
SetTotal(st, r, side) ==
  IF side = "h" THEN rowSetTotals(st, r).home ELSE rowSetTotals(st, r).away

OtherSide(side) == IF side = "h" THEN "a" ELSE "h"

\* The stored document's copy of a cell side.
StoredSide(item, r, g, side) == item.doc.scores.items[r + 1].items[g + 1][side]

\* C13: a score edit typing v in 0..11 into a blank cell side raises the
\* row's set total of that side by exactly v and leaves the other side's set
\* total alone; typing blank into a cell side holding w makes it blank (not
\* 0) and lowers the set total by w, so the total is back where it was; "0"
\* is held and stored as the number 0, blank as the empty string, and both
\* add 0 to the sum.
C13_BlankAndZero ==
  [][\A e \in ScoreEdits :
       (lastOp' = "score" /\ ScoreInput(e[1], e[2], e[3], e[4])) =>
         LET old  == Side(state, e[1], e[2], e[3])
             new  == Side(state', e[1], e[2], e[3])
             n    == Typed(e[4])
             kept == StoredSide(getItem(version, storage'), e[1], e[2], e[3])
         IN  /\ SetTotal(state', e[1], OtherSide(e[3]))
                  = SetTotal(state, e[1], OtherSide(e[3]))
             /\ (old = Blank /\ ~IsNaN(n) /\ n.n \in 0..11) =>
                  /\ new = n
                  /\ SetTotal(state', e[1], e[3]).n
                       = SetTotal(state, e[1], e[3]).n + n.n
                  /\ kept = JNum(n.n)
             /\ (e[4] = <<>> /\ PointsOk(old)) =>
                  /\ new = Blank
                  /\ SetTotal(state', e[1], e[3]).n
                       = SetTotal(state, e[1], e[3]).n - PointsOf(old).n
                  /\ kept = JStr(<<>>)
    ]_vars

\* C13 witness: row 0 game 1 home holds the number 0, the stored copy holds
\* the number 0, and row 8 game 4 away holds 7 where it was blank.
C13_Witness ==
  /\ lastOp = "score"
  /\ Side(state, 0, 0, "h") = Num(0)
  /\ StoredSide(OwnItem, 0, 0, "h") = JNum(0)
  /\ Side(state, 8, 3, "a") = Num(7)
  /\ SetTotal(state, 8, "a") = Num(7)

\* The names, handicaps and cells of a freshly constructed default, written
\* out.
IsFreshDefault(st) ==
  /\ st.home = Arr(<<Player(Str(<<"H", "o", "m", "e", " ", "1">>), Num(0)),
                     Player(Str(<<"H", "o", "m", "e", " ", "2">>), Num(0)),
                     Player(Str(<<"H", "o", "m", "e", " ", "3">>), Num(0))>>)
  /\ st.away = Arr(<<Player(Str(<<"A", "w", "a", "y", " ", "1">>), Num(0)),
                     Player(Str(<<"A", "w", "a", "y", " ", "2">>), Num(0)),
                     Player(Str(<<"A", "w", "a", "y", " ", "3">>), Num(0))>>)
  /\ IsArray(st.scores) /\ Len(st.scores.items) = 9
  /\ \A r \in 0..8 :
       /\ Len(At(st.scores, r).items) = 4
       /\ \A g \in 0..3 : CellAt(st, r, g) = Cell(Str(<<>>), Str(<<>>))
  /\ \/ st.exchange = Undefined
     \/ st.exchange = Arr([r \in 1..9 |-> Exchange(Num(0), Num(0))])
  /\ DOMAIN st = {"t", "home", "away", "exchange", "scores"}

\* C14: after a confirmed reset the whole Match State is the freshly
\* constructed default (nothing of the previous state survives), the stored
\* payload is that default, and a load() returns it.
C14_ResetGivesDefault ==
  lastOp = "reset" =>
    /\ IsFreshDefault(state)
    /\ state = defaultState(version)
    /\ OwnItem = JsonText(Stringify(defaultState(version)))
    /\ loadState(version, OwnItem) = defaultState(version)

\* C14 witness: a reset of a match that was loaded with values out of range
\* or out of shape.
C14_Witness ==
  /\ lastOp = "reset"
  /\ ~loadedOk
  /\ IsFreshDefault(state)

\* C15: in every state load() returns and every state reached from it, the
\* totals operations (row set total, handicap total, running totals by row,
\* grand totals) raise no error, and no mutation handler raised one.
C15_NoOperationRaises ==
  /\ ~sumHandicapsRaises(state.home)
  /\ ~sumHandicapsRaises(state.away)
  /\ \A r \in 0..8 : ~rowRaises(state, r)
  /\ ~computeRunningTotalsByRowRaises(version, state)
  /\ ~renderTotalsOnlyRaises(version, state)
  /\ lastOp # "exchangeRaised"

\* A text that spells a whole number: an optional "-" and then digits only.
SpellsNumber(s) ==
  LET body == IF Len(s) > 0 /\ Head(s) = "-" THEN Tail(s) ELSE s
  IN  Len(body) > 0 /\ \A i \in 1..Len(body) : body[i] \in Digits

\* What a stored value adds to a sum: itself when it is a number, the number
\* it spells when it is a text that spells one, and 0 when it is blank, any
\* other text, null or missing.  (Number() also converts true and a
\* one-element array to a number; no payload explored here holds them.)
Contribution(v) ==
  CASE v.t = "number" -> v.n
    [] v.t = "string" /\ SpellsNumber(v.s) ->
         IF Head(v.s) = "-" THEN 0 - DigitsValue(Tail(v.s)) ELSE DigitsValue(v.s)
    [] OTHER -> 0

TimesHome(order, i) == Cardinality({r \in 1..Len(order) : order[r].h = i})
TimesAway(order, i) == Cardinality({r \in 1..Len(order) : order[r].a = i})

\* C17: the pairing schedule is (2,1),(1,3),(3,2),(2,3),(3,1),(1,2),(3,3),
\* (2,2),(1,1) in every state, whatever operation ran, and every index 1..3
\* is the home index of exactly 3 pairings and the away index of exactly 3.
C17_ScheduleFixed ==
  /\ Len(matchOrder) = 9
  /\ [r \in 1..9 |-> <<matchOrder[r].h, matchOrder[r].a>>] =
       << <<2, 1>>, <<1, 3>>, <<3, 2>>, <<2, 3>>, <<3, 1>>, <<1, 2>>,
          <<3, 3>>, <<2, 2>>, <<1, 1>> >>
  /\ \A i \in 1..3 : TimesHome(matchOrder, i) = 3 /\ TimesAway(matchOrder, i) = 3

\* C17 witness: the schedule after two events, the last one a score edit.
C17_Witness ==
  /\ lastOp = "score"
  /\ left = 0
  /\ Side(state, 8, 3, "a") = Num(7)
  /\ state.home = defaultHome
  /\ matchOrder[7] = [h |-> 3, a |-> 3]

\* C18: when the handler of a handicap edit, a score edit or a reset has
\* returned on a valid Match State, the header's grand totals, the set
\* totals, the 9 running totals and the bottom total on display are the
\* ones derived from the current Match State.
C18_DisplayedIsCurrent ==
  (lastOp \in {"hcap", "score", "reset"} /\ Valid(state)) =>
    /\ shown.header # NotShown
    /\ shown.table # NotShown
    /\ HeaderText(version, shown.header) = grandTotals(version, state)
    /\ TableText(version, shown.table) = TableText(version, Table(version, state))

\* C19: the script started on an empty slot.  In every state reached by name,
\* handicap and score edits, resets and reloads the Match State has 3 players
\* per roster, 9 rows of 4 cells, handicaps that are integers in 0..999 and
\* cell sides that are blank or integers in 0..11; what a reload returned is
\* the state that was saved (the default only when nothing was saved), and a
\* reload now would return the current state.
C19_ReachableValidAndKept ==
  /\ Valid(state)
  /\ lastOp = "startup" =>
        IF OwnItem = NoItem THEN state = defaultState(version)
        ELSE OwnItem.k = "json" /\ state = Parse(OwnItem.doc)
  /\ loadState(version, OwnItem) = state

\* C19 witness: a handicap and a score were edited and saved, then the page
\* was reloaded and shows the edited match, not the default.
C19_Witness ==
  /\ lastOp = "startup"
  /\ version = V105
  /\ OwnItem # NoItem
  /\ state # defaultState(version)
  /\ Hcap(state, "home", 0) = Num(999)
  /\ Side(state, 0, 0, "h") = Num(11)

NameOf(st, teamKey, idx) == Prop(At(Team(st, teamKey), idx), "name")

Players == {"home", "away"} \X (0..2)

\* Every derived total of a Match State.
AllTotals(v, st) ==
  [sets    |-> [r \in 0..8 |-> rowSetTotals(st, r)],
   running |-> computeRunningTotalsByRow(v, st),
   grand   |-> grandTotals(v, st)]

\* C20: each edit changes only the field it targets.  A score edit of
\* (row, game, side) leaves every other cell, the other side of the same
\* cell, both rosters and the exchange unchanged; a handicap edit leaves all
\* names, all other handicaps and the grid unchanged; a name edit leaves all
\* handicaps, all other names and the grid unchanged, and with them every
\* set total, running total and grand total.
C20_OnlyTargetChanges ==
  [][/\ \A e \in ScoreEdits :
          (lastOp' = "score" /\ ScoreInput(e[1], e[2], e[3], e[4])) =>
            /\ state'.home = state.home
            /\ state'.away = state.away
            /\ Prop(state', "exchange") = Prop(state, "exchange")
            /\ \A r \in 0..8, g \in 0..3 :
                 <<r, g>> # <<e[1], e[2]>> => CellAt(state', r, g) = CellAt(state, r, g)
            /\ Side(state', e[1], e[2], OtherSide(e[3])) =
                 Side(state, e[1], e[2], OtherSide(e[3]))
     /\ \A e \in HcapEdits :
          (lastOp' = "hcap" /\ HcapInput(e[1], e[2], e[3])) =>
            /\ state'.scores = state.scores
            /\ Prop(state', "exchange") = Prop(state, "exchange")
            /\ \A p \in Players :
                 /\ NameOf(state', p[1], p[2]) = NameOf(state, p[1], p[2])
                 /\ p # <<e[1], e[2]>> =>
                      Hcap(state', p[1], p[2]) = Hcap(state, p[1], p[2])
     /\ \A e \in NameEdits :
          (lastOp' = "name" /\ NameInput(e[1], e[2], e[3])) =>
            /\ state'.scores = state.scores
            /\ Prop(state', "exchange") = Prop(state, "exchange")
            /\ \A p \in Players :
                 /\ Hcap(state', p[1], p[2]) = Hcap(state, p[1], p[2])
                 /\ p # <<e[1], e[2]>> =>
                      NameOf(state', p[1], p[2]) = NameOf(state, p[1], p[2])
            /\ AllTotals(version, state') = AllTotals(version, state)
    ]_vars

\* C20 witness: after a reset, a 7 typed into the away side of the last game
\* of the last row is the only cell side that is not blank.
C20_Witness ==
  /\ lastOp = "score"
  /\ left = 0
  /\ state.home = defaultHome
  /\ state.away = defaultAway
  /\ Side(state, 8, 3, "a") = Num(7)
  /\ Side(state, 8, 3, "h") = Blank
  /\ \A r \in 0..8, g \in 0..3 :
       <<r, g>> # <<8, 3>> => CellAt(state, r, g) = Cell(Blank, Blank)

====
